---- MODULE Spec2Model ----
(***************************************************************************)
(* Model of the DOTA2 team match-ID crawler                                *)
(* (src/Get team match ID/获取战队比赛编号.py): get_team_id,               *)
(* build_matches_url, crawl_match_ids, export_to_csv and main.             *)
(*                                                                         *)
(* Strings are sequences of one-character strings.  A JSON value returned  *)
(* by the remote service is a tagged record, so that values of different   *)
(* JSON types can sit in one list.  A printed line is a tag naming the     *)
(* print statement that produced it.                                       *)
(***************************************************************************)
EXTENDS Integers, Sequences, FiniteSets, TLC

(* ------------------------------ bounds --------------------------------- *)
MaxInputLen == 2     \* longest line typed at the prompt
MaxTeams    == 2     \* longest list returned by /api/teams
MaxTeamId   == 2     \* team_id values are 0..MaxTeamId
MaxMatches  == 3     \* longest list returned by /api/teams/{id}/matches
MaxCalls    == 2     \* export_to_csv calls in SpecExport

InputChars == {" ", "A"}
MatchIdValues == {100, 200}

SeqsUpTo(S, n) == UNION {[1..k -> S] : k \in 0..n}

(* ------------------------------ strings -------------------------------- *)
\* str.lower() on one character
LowerChar(c) ==
    CASE c = "A" -> "a"
      [] c = "B" -> "b"
      [] OTHER   -> c

\* str.lower()
Lower(s) == [i \in 1..Len(s) |-> LowerChar(s[i])]

\* sub in s  (substring test on str)
Contains(sub, s) ==
    \E k \in 0..(Len(s) - Len(sub)) :
        \A j \in 1..Len(sub) : s[k + j] = sub[j]

IsSpace(c) == c = " "

RECURSIVE LStrip(_)
LStrip(s) == IF s # << >> /\ IsSpace(Head(s)) THEN LStrip(Tail(s)) ELSE s

RECURSIVE RStrip(_)
RStrip(s) ==
    IF s # << >> /\ IsSpace(s[Len(s)]) THEN RStrip(SubSeq(s, 1, Len(s) - 1)) ELSE s

\* the input used as typed, .strip() forgotten
StripNone(s) == s

\* str.strip()
Strip(s) == RStrip(LStrip(s))

Digit(d) == <<"0", "1", "2", "3", "4", "5", "6", "7", "8", "9">>[d + 1]

\* str(n) for a natural number
RECURSIVE Decimal(_)
Decimal(n) == IF n < 10 THEN <<Digit(n)>> ELSE Decimal(n \div 10) \o <<Digit(n % 10)>>

(* ------------------------------ values --------------------------------- *)
None == [t |-> "none", v |-> 0]
IntVal(n) == [t |-> "int", v |-> n]

\* Python truthiness of a value that is None or an int
Truthy(x) == x.t = "int" /\ x.v # 0

Missing == [t |-> "missing", s |-> << >>]
NullName == [t |-> "null", s |-> << >>]
Str(s) == [t |-> "str", s |-> s]

NoField == [t |-> "missing", v |-> 0]

(* ---------------------- remote service: /api/teams --------------------- *)
\* names of team records: lower case, mixed case with a tail, no match
TeamNames == {<<"a">>, <<"A", "b">>, <<"b">>}

\* entries of the list: JSON objects with or without name / team_id,
\* a number, and an empty array
TeamEntries ==
    [kind : {"obj"},
     name : {Missing, NullName} \cup {Str(s) : s \in TeamNames},
     team_id : {NoField} \cup {IntVal(n) : n \in 0..MaxTeamId}]
    \cup {[kind |-> "num", name |-> Missing, team_id |-> NoField],
          [kind |-> "arr", name |-> Missing, team_id |-> NoField]}

NullBody == [t |-> "null", items |-> << >>]
ObjectBody == [t |-> "object", items |-> << >>]
ListBody(items) == [t |-> "list", items |-> items]

TeamResponses ==
    {[kind |-> "transport_fail", body |-> NullBody],
     [kind |-> "bad_json", body |-> NullBody],
     [kind |-> "json", body |-> NullBody],
     [kind |-> "json", body |-> ObjectBody]}
    \cup {[kind |-> "json", body |-> ListBody(l)] : l \in SeqsUpTo(TeamEntries, MaxTeams)}

Returned(x, out) == [ret |-> x, out |-> out, fault |-> FALSE]
\* an exception no except clause of the function catches
Raised == [ret |-> None, out |-> << >>, fault |-> TRUE]

\* the for loop of get_team_id, from the i-th entry on, without the
\* 'name' in team test: a record without name raises KeyError
RECURSIVE ScanTeamsNoNameTest(_, _, _)
ScanTeamsNoNameTest(team_name, items, i) ==
    IF i > Len(items) THEN Returned(None, <<"team_not_found">>)
    ELSE LET team == items[i] IN
         IF team.kind = "num" THEN Raised
         ELSE IF team.kind = "arr" THEN Raised
         ELSE IF team.name.t = "missing" THEN Returned(None, <<"team_parse_error">>)
         ELSE IF team.name.t = "null" THEN Raised
         ELSE IF Contains(Lower(team_name), Lower(team.name.s))
              THEN IF team.team_id.t = "missing"
                   THEN Returned(None, <<"team_parse_error">>)
                   ELSE Returned(team.team_id, << >>)
              ELSE ScanTeamsNoNameTest(team_name, items, i + 1)

\* the for loop of get_team_id, from the i-th entry on
RECURSIVE ScanTeams(_, _, _)
ScanTeams(team_name, items, i) ==
    IF i > Len(items) THEN Returned(None, <<"team_not_found">>)
    ELSE LET team == items[i] IN
         \* 'name' in 5 raises TypeError, which no clause catches
         IF team.kind = "num" THEN Raised
         \* 'name' in [] is False
         ELSE IF team.kind = "arr" THEN ScanTeams(team_name, items, i + 1)
         ELSE IF team.name.t = "missing" THEN ScanTeams(team_name, items, i + 1)
         \* None.lower() raises AttributeError, which no clause catches
         ELSE IF team.name.t = "null" THEN Raised
         ELSE IF Contains(Lower(team_name), Lower(team.name.s))
              THEN IF team.team_id.t = "missing"
                   \* KeyError, caught
                   THEN Returned(None, <<"team_parse_error">>)
                   ELSE Returned(team.team_id, << >>)
              ELSE ScanTeams(team_name, items, i + 1)

get_team_id(team_name, response) ==
    IF response.kind \in {"transport_fail", "bad_json"}
    THEN Returned(None, <<"team_network_error">>)
    ELSE IF response.body.t = "list" /\ response.body.items # << >>
         THEN ScanTeams(team_name, response.body.items, 1)
         ELSE Returned(None, <<"team_not_found">>)

build_matches_url(team_id) ==
    <<"https://www.opendota.com/teams/">> \o Decimal(team_id.v) \o <<"/matches">>

(* ---------------- remote service: /api/teams/{id}/matches -------------- *)
MatchEntries ==
    [kind : {"obj"}, match_id : {NoField} \cup {IntVal(m) : m \in MatchIdValues}]
    \cup {[kind |-> "num", match_id |-> NoField],
          [kind |-> "arr", match_id |-> NoField]}

MatchResponses ==
    {[kind |-> "transport_fail", body |-> NullBody],
     [kind |-> "bad_json", body |-> NullBody],
     [kind |-> "json", body |-> NullBody],
     [kind |-> "json", body |-> ObjectBody]}
    \cup {[kind |-> "json", body |-> ListBody(l)] : l \in SeqsUpTo(MatchEntries, MaxMatches)}

Listed(ids, out) == [ids |-> ids, out |-> out, fault |-> FALSE]
ListRaised == [ids |-> << >>, out |-> << >>, fault |-> TRUE]

\* the list comprehension of crawl_match_ids, from the i-th entry on,
\* moving a smaller following id in front of the current one (a sort)
RECURSIVE ExtractMatchIdsSorted(_, _)
ExtractMatchIdsSorted(items, i) ==
    IF i > Len(items) THEN Listed(<< >>, << >>)
    ELSE LET match == items[i]
             rest == ExtractMatchIdsSorted(items, i + 1)
         IN  IF match.kind = "num" THEN ListRaised
             ELSE IF rest.fault THEN ListRaised
             ELSE IF match.kind = "arr" \/ match.match_id.t = "missing" THEN rest
             ELSE IF rest.ids # << >> /\ rest.ids[1] < match.match_id.v
                  THEN Listed(<<rest.ids[1], match.match_id.v>> \o Tail(rest.ids), << >>)
                  ELSE Listed(<<match.match_id.v>> \o rest.ids, << >>)

\* the list comprehension of crawl_match_ids, from the i-th entry on
RECURSIVE ExtractMatchIds(_, _)
ExtractMatchIds(items, i) ==
    IF i > Len(items) THEN Listed(<< >>, << >>)
    ELSE LET match == items[i]
             rest == ExtractMatchIds(items, i + 1)
         IN  \* 'match_id' in 5 raises TypeError, which no clause catches
             IF match.kind = "num" THEN ListRaised
             ELSE IF rest.fault THEN ListRaised
             \* 'match_id' in [] is False
             ELSE IF match.kind = "arr" \/ match.match_id.t = "missing" THEN rest
             ELSE Listed(<<match.match_id.v>> \o rest.ids, << >>)

crawl_match_ids(team_id, response) ==
    IF response.kind \in {"transport_fail", "bad_json"}
    THEN Listed(<< >>, <<"match_network_error">>)
    ELSE IF response.body.t = "list" /\ response.body.items # << >>
         THEN ExtractMatchIds(response.body.items, 1)
         ELSE Listed(<< >>, <<"match_no_data">>)

(* ------------------------------ the file ------------------------------- *)
FileName(team_name) == team_name \o <<"_match_ids.csv">>

\* DataFrame({'match_id': match_ids}).to_csv(index=False): header, one row per id
ToCsv(match_ids) ==
    <<<<"match_id">>>> \o [i \in 1..Len(match_ids) |-> Decimal(match_ids[i])]

EmptyFs == [n \in {} |-> << >>]
OldRows == <<<<"match_id">>, <<"7">>>>
PriorFs == {EmptyFs, [n \in {FileName(<<"A">>)} |-> OldRows]}

PutFile(files, name, rows) ==
    [n \in DOMAIN files \cup {name} |-> IF n = name THEN rows ELSE files[n]]

FileOf(files, name) ==
    IF name \in DOMAIN files THEN [exists |-> TRUE, rows |-> files[name]]
    ELSE [exists |-> FALSE, rows |-> << >>]

\* open(filename, 'w') succeeds and every row is written; "open_fail": the
\* open raises and the file is untouched; "write_fail": the file is opened
\* (truncated) and the write raises
WriteOutcomes == {"ok", "open_fail", "write_fail"}

\* to_csv opening the file for append
WriteFileAppend(files, name, rows, outcome) ==
    CASE outcome = "ok" ->
           PutFile(files, name, (IF name \in DOMAIN files THEN files[name] ELSE << >>) \o rows)
      [] outcome = "write_fail" -> PutFile(files, name, << >>)
      [] OTHER -> files

\* df.to_csv(filename, index=False, encoding='utf-8')
WriteFile(files, name, rows, outcome) ==
    CASE outcome = "ok" -> PutFile(files, name, rows)
      [] outcome = "write_fail" -> PutFile(files, name, << >>)
      [] OTHER -> files

export_to_csv(match_ids, team_name, files, outcome) ==
    IF match_ids = << >>
    THEN [fs |-> files, out |-> <<"nothing_to_export">>, outcome |-> "not_attempted"]
    ELSE [fs |-> WriteFile(files, FileName(team_name), ToCsv(match_ids), outcome),
          out |-> IF outcome = "ok" THEN <<"export_ok">> ELSE <<"export_error">>,
          outcome |-> outcome]

(* ------------------------------- state --------------------------------- *)
VARIABLES
    pc,           \* position of main: "start", "resolve", "list", "export",
                  \* "done" (main returned), "crashed" (uncaught exception);
                  \* of a function called directly: "call", "returned",
                  \* "raised"
    raw_input,    \* the line read by input()
    team_name,    \* main's team_name
    team_id,      \* main's team_id
    matches_url,  \* main's matches_url
    match_ids,    \* main's match_ids
    response,     \* answer of requests.get to the function called directly
    output,       \* lines printed, oldest first
    requests,     \* requests issued, oldest first
    stages,       \* stages of main entered, oldest first
    fs,           \* files of the working directory: name -> rows
    exports       \* export_to_csv calls made: outcome and file afterwards

vars == <<pc, raw_input, team_name, team_id, matches_url, match_ids, response,
          output, requests, stages, fs, exports>>

RawInputs == SeqsUpTo(InputChars, MaxInputLen)

NoResponse == [kind |-> "none", body |-> NullBody]

TeamsRequest == [ep |-> "teams", id |-> 0]
MatchesRequest(id) == [ep |-> "matches", id |-> id.v]

ExportRecord(r, name) == [outcome |-> r.outcome, after |-> FileOf(r.fs, name)]

Init ==
    /\ pc = "start"
    /\ raw_input = << >>
    /\ team_name = << >>
    /\ team_id = None
    /\ matches_url = << >>
    /\ match_ids = << >>
    /\ response = NoResponse
    /\ output = << >>
    /\ requests = << >>
    /\ stages = << >>
    /\ fs \in PriorFs
    /\ exports = << >>

(* ------------------------------- main ---------------------------------- *)
\* main, lines 138-148: banner, prompt, empty-name guard
PromptInput ==
    /\ pc = "start"
    /\ \E raw \in RawInputs :
         /\ raw_input' = raw
         /\ team_name' = Strip(raw)
         /\ IF Strip(raw) = << >>
            THEN /\ output' = output \o <<"banner", "rule", "name_empty">>
                 /\ pc' = "done"
            ELSE /\ output' = output \o <<"banner", "rule", "processing">>
                 /\ pc' = "resolve"
    /\ stages' = Append(stages, "PromptInput")
    /\ UNCHANGED <<team_id, matches_url, match_ids, response, requests, fs, exports>>

\* main, lines 151-163, without the `if not team_id: return` guard: the run
\* goes on to the lister whatever the resolver returned
ResolveTeamNoHalt ==
    /\ pc = "resolve"
    /\ \E resp \in TeamResponses :
         LET r == get_team_id(team_name, resp) IN
         /\ requests' = Append(requests, TeamsRequest)
         /\ IF r.fault
            THEN /\ pc' = "crashed"
                 /\ output' = output \o <<"resolve_progress">>
                 /\ UNCHANGED <<team_id, matches_url>>
            ELSE /\ team_id' = r.ret
                 /\ pc' = "list"
                 /\ output' = output \o <<"resolve_progress">> \o r.out
                                     \o <<"resolve_ok", "url_progress", "url_ok">>
                 /\ matches_url' = build_matches_url(r.ret)
    /\ stages' = Append(stages, "ResolveTeam")
    /\ UNCHANGED <<raw_input, team_name, match_ids, response, fs, exports>>

\* main, lines 151-163: resolve the team, halt on a falsy id, build the URL
ResolveTeam ==
    /\ pc = "resolve"
    /\ \E resp \in TeamResponses :
         LET r == get_team_id(team_name, resp) IN
         /\ requests' = Append(requests, TeamsRequest)
         /\ IF r.fault
            THEN /\ pc' = "crashed"
                 /\ output' = output \o <<"resolve_progress">>
                 /\ UNCHANGED <<team_id, matches_url>>
            ELSE /\ team_id' = r.ret
                 /\ IF ~Truthy(r.ret)
                    THEN /\ pc' = "done"
                         /\ output' = output \o <<"resolve_progress">> \o r.out
                                             \o <<"resolve_failed">>
                         /\ UNCHANGED matches_url
                    ELSE /\ pc' = "list"
                         /\ output' = output \o <<"resolve_progress">> \o r.out
                                             \o <<"resolve_ok", "url_progress", "url_ok">>
                         /\ matches_url' = build_matches_url(r.ret)
    /\ stages' = Append(stages, "ResolveTeam")
    /\ UNCHANGED <<raw_input, team_name, match_ids, response, fs, exports>>

\* main, lines 166-173, with the test of `if not match_ids` inverted
ListMatchesInverted ==
    /\ pc = "list"
    /\ \E resp \in MatchResponses :
         LET r == crawl_match_ids(team_id, resp) IN
         /\ requests' = Append(requests, MatchesRequest(team_id))
         /\ IF r.fault
            THEN /\ pc' = "crashed"
                 /\ output' = output \o <<"list_progress">>
                 /\ UNCHANGED match_ids
            ELSE /\ match_ids' = r.ids
                 /\ IF r.ids # << >>
                    THEN /\ pc' = "done"
                         /\ output' = output \o <<"list_progress">> \o r.out
                                             \o <<"list_empty">>
                    ELSE /\ pc' = "export"
                         /\ output' = output \o <<"list_progress">> \o r.out
                                             \o <<"list_ok">>
    /\ stages' = Append(stages, "ListMatches")
    /\ UNCHANGED <<raw_input, team_name, team_id, matches_url, response, fs, exports>>

\* main, lines 166-173: list the matches, halt on an empty list
ListMatches ==
    /\ pc = "list"
    /\ \E resp \in MatchResponses :
         LET r == crawl_match_ids(team_id, resp) IN
         /\ requests' = Append(requests, MatchesRequest(team_id))
         /\ IF r.fault
            THEN /\ pc' = "crashed"
                 /\ output' = output \o <<"list_progress">>
                 /\ UNCHANGED match_ids
            ELSE /\ match_ids' = r.ids
                 /\ IF r.ids = << >>
                    THEN /\ pc' = "done"
                         /\ output' = output \o <<"list_progress">> \o r.out
                                             \o <<"list_empty">>
                    ELSE /\ pc' = "export"
                         /\ output' = output \o <<"list_progress">> \o r.out
                                             \o <<"list_ok">>
    /\ stages' = Append(stages, "ListMatches")
    /\ UNCHANGED <<raw_input, team_name, team_id, matches_url, response, fs, exports>>

\* main, lines 176-179: export and finish
Export ==
    /\ pc = "export"
    /\ \E outcome \in WriteOutcomes :
         LET r == export_to_csv(match_ids, team_name, fs, outcome) IN
         /\ fs' = r.fs
         /\ output' = output \o <<"export_progress">> \o r.out \o <<"complete">>
         /\ exports' = Append(exports, ExportRecord(r, FileName(team_name)))
    /\ pc' = "done"
    /\ stages' = Append(stages, "Export")
    /\ UNCHANGED <<raw_input, team_name, team_id, matches_url, match_ids, response,
                   requests>>

Next == PromptInput \/ ResolveTeam \/ ListMatches \/ Export

Spec == Init /\ [][Next]_vars

(* ----------------------- functions called directly -------------------- *)
\* team names main can pass on: stripped and not empty
TeamNameArgs == {Strip(raw) : raw \in RawInputs} \ {<< >>}

\* team ids main can pass on: truthy
TeamIdArgs == {IntVal(n) : n \in 1..MaxTeamId}

\* get_team_id(team_name) against every answer of /api/teams
InitResolve ==
    /\ pc = "call"
    /\ raw_input = << >>
    /\ team_name \in TeamNameArgs
    /\ team_id = None
    /\ matches_url = << >>
    /\ match_ids = << >>
    /\ response \in TeamResponses
    /\ output = << >>
    /\ requests = << >>
    /\ stages = << >>
    /\ fs = EmptyFs
    /\ exports = << >>

CallGetTeamId ==
    /\ pc = "call"
    /\ LET r == get_team_id(team_name, response) IN
         /\ pc' = IF r.fault THEN "raised" ELSE "returned"
         /\ team_id' = r.ret
         /\ output' = output \o r.out
    /\ requests' = Append(requests, TeamsRequest)
    /\ UNCHANGED <<raw_input, team_name, matches_url, match_ids, response, stages,
                   fs, exports>>

NextResolve == CallGetTeamId

SpecResolve == InitResolve /\ [][NextResolve]_vars

\* crawl_match_ids(team_id) against every answer of /api/teams/{id}/matches
InitCrawl ==
    /\ pc = "call"
    /\ raw_input = << >>
    /\ team_name = << >>
    /\ team_id \in TeamIdArgs
    /\ matches_url = << >>
    /\ match_ids = << >>
    /\ response \in MatchResponses
    /\ output = << >>
    /\ requests = << >>
    /\ stages = << >>
    /\ fs = EmptyFs
    /\ exports = << >>

CallCrawlMatchIds ==
    /\ pc = "call"
    /\ LET r == crawl_match_ids(team_id, response) IN
         /\ pc' = IF r.fault THEN "raised" ELSE "returned"
         /\ match_ids' = r.ids
         /\ output' = output \o r.out
    /\ requests' = Append(requests, MatchesRequest(team_id))
    /\ UNCHANGED <<raw_input, team_name, team_id, matches_url, response, stages,
                   fs, exports>>

NextCrawl == CallCrawlMatchIds

SpecCrawl == InitCrawl /\ [][NextCrawl]_vars

\* export_to_csv(match_ids, team_name), called MaxCalls times
InitExport ==
    /\ pc = "call"
    /\ raw_input = << >>
    /\ team_name \in TeamNameArgs
    /\ team_id = None
    /\ matches_url = << >>
    /\ match_ids \in SeqsUpTo(MatchIdValues, MaxMatches)
    /\ response = NoResponse
    /\ output = << >>
    /\ requests = << >>
    /\ stages = << >>
    /\ fs \in PriorFs
    /\ exports = << >>

\* one call export_to_csv(match_ids, team_name)
ExportCall ==
    /\ pc = "call"
    /\ Len(exports) < MaxCalls
    /\ \E outcome \in WriteOutcomes :
         LET r == export_to_csv(match_ids, team_name, fs, outcome) IN
         /\ fs' = r.fs
         /\ output' = output \o r.out
         /\ exports' = Append(exports, ExportRecord(r, FileName(team_name)))
    /\ UNCHANGED <<pc, raw_input, team_name, team_id, matches_url, match_ids,
                   response, requests, stages>>

NextExport == ExportCall

SpecExport == InitExport /\ [][NextExport]_vars

(* ------------------------------ claims --------------------------------- *)
RunEnded == pc \in {"done", "crashed"}

Printed(line) == \E i \in 1..Len(output) : output[i] = line

\* get_team_id has run on an answer of /api/teams that is a list
TeamListAnswered ==
    /\ pc \in {"returned", "raised"}
    /\ response.kind = "json"
    /\ response.body.t = "list"

\* a record whose lower-cased name contains the lower-cased input
NameMatches(e) ==
    /\ e.kind = "obj"
    /\ e.name.t = "str"
    /\ Contains(Lower(team_name), Lower(e.name.s))

\* an entry the loop steps over: no name key, or a name that does not match
SteppedOver(e) ==
    \/ e.kind = "arr"
    \/ e.kind = "obj" /\ e.name.t = "missing"
    \/ e.kind = "obj" /\ e.name.t = "str" /\ ~NameMatches(e)

\* the loop gets as far as the i-th entry
Encountered(items, i) == \A j \in 1..(i - 1) : SteppedOver(items[j])

\* C1: for every team list and non-empty team name, get_team_id returns the
\* team_id of the first record whose lower-cased name contains the
\* lower-cased input, and None when no record's name contains it.
C1_FirstMatchWins ==
    TeamListAnswered =>
        LET items == response.body.items
            M == {i \in 1..Len(items) : NameMatches(items[i])}
        IN  /\ M = {} => pc = "returned" /\ team_id = None
            /\ M # {} =>
                 LET first == CHOOSE i \in M : \A j \in M : i <= j IN
                 items[first].team_id.t = "int" =>
                     /\ pc = "returned"
                     /\ team_id = items[first].team_id

\* the file <team_name>_match_ids.csv holds the CSV of this run's match ids
Written ==
    FileOf(fs, FileName(team_name)) = [exists |-> TRUE, rows |-> ToCsv(match_ids)]

\* C2 (as claimed): at the end of every run the output file has been written
\* if and only if the lister obtained at least one match id.
C2_WrittenIffObtained == RunEnded => (Written <=> match_ids # << >>)

\* C2 (amended): at the end of every run the file has been written if and
\* only if the lister obtained at least one match id and the write
\* succeeded; whenever ids were obtained the export was attempted.
C2_WrittenIffObtainedAndWriteOk ==
    RunEnded =>
        /\ Written <=> (match_ids # << >> /\ Len(exports) = 1 /\ exports[1].outcome = "ok")
        /\ match_ids # << >> => Len(exports) = 1 /\ exports[1].outcome \in WriteOutcomes

C2_Witness ==
    /\ pc = "done"
    /\ Len(match_ids) = 2
    /\ Written

\* C3: whatever the remote service answers and whatever the write does, no
\* error propagates as an uncaught fault.
C3_NoUncaughtFault == pc # "crashed"

\* C4 (as claimed): a record missing name or team_id that the loop
\* encounters makes get_team_id report a parse error and return None.
C4_MalformedIsParseError ==
    TeamListAnswered =>
        \A i \in 1..Len(response.body.items) :
            LET e == response.body.items[i] IN
            (/\ Encountered(response.body.items, i)
             /\ e.kind = "obj"
             /\ (e.name.t = "missing" \/ e.team_id.t = "missing"))
            => /\ pc = "returned"
               /\ team_id = None
               /\ Printed("team_parse_error")

\* the loop reaches a record whose name matches and that has no team_id
ReachesMatchWithoutId ==
    \E i \in 1..Len(response.body.items) :
        /\ Encountered(response.body.items, i)
        /\ NameMatches(response.body.items[i])
        /\ response.body.items[i].team_id.t = "missing"

\* C4 (amended): get_team_id reports a parse error exactly when the loop
\* reaches a record whose name contains the input and that lacks team_id,
\* and then returns None whatever records follow; a record lacking name is
\* stepped over without a report.
C4_MatchWithoutIdIsParseError ==
    TeamListAnswered =>
        /\ ReachesMatchWithoutId => pc = "returned" /\ team_id = None
        /\ ReachesMatchWithoutId <=> Printed("team_parse_error")

C4_Witness ==
    /\ TeamListAnswered
    /\ Len(response.body.items) = 2
    /\ response.body.items[1].kind = "obj"
    /\ response.body.items[1].name.t = "missing"
    /\ NameMatches(response.body.items[2])
    /\ response.body.items[2].team_id.t = "missing"
    /\ Printed("team_parse_error")
    /\ team_id = None

StageOrder == <<"PromptInput", "ResolveTeam", "ListMatches", "Export">>

\* C5: the stages run in the order PromptInput, ResolveTeam, ListMatches,
\* Export and none runs after a failed one: the team-matches request comes
\* after the team-listing request and only for an id the resolver returned,
\* and export is attempted only after the lister returned a non-empty list.
C5_StagesInOrder ==
    /\ Len(stages) <= Len(StageOrder)
    /\ \A k \in 1..Len(stages) : stages[k] = StageOrder[k]
    /\ Len(stages) >= 2 => team_name # << >>
    /\ Len(stages) >= 3 => team_id.t = "int"
    /\ Len(stages) >= 4 => match_ids # << >>
    /\ Len(requests) <= 2
    /\ Len(requests) >= 1 => requests[1] = TeamsRequest /\ Len(stages) >= 2
    /\ Len(requests) = 2 =>
         /\ team_id.t = "int"
         /\ requests[2] = [ep |-> "matches", id |-> team_id.v]
         /\ Len(stages) >= 3
    /\ exports # << >> => Len(stages) = 4 /\ match_ids # << >>

C5_Witness ==
    /\ pc = "done"
    /\ stages = StageOrder
    /\ Len(requests) = 2
    /\ Len(exports) = 1

IsBlank(s) == \A i \in 1..Len(s) : s[i] = " "

\* C6: an empty or whitespace-only line at the prompt makes main report an
\* input error and halt without a request to either endpoint and without
\* writing a file.
C6_BlankInputHalts ==
    (pc # "start" /\ IsBlank(raw_input)) =>
        /\ pc = "done"
        /\ output = <<"banner", "rule", "name_empty">>
        /\ stages = <<"PromptInput">>
        /\ requests = << >>
        /\ exports = << >>
        /\ fs \in PriorFs

C6_Witness ==
    /\ pc = "done"
    /\ raw_input = <<" ", " ">>
    /\ Printed("name_empty")

HasMatchId(e) == e.match_id.t = "int"

\* the match_id values of the records that have one, in list order
MatchIdsOf(items) ==
    LET with == SelectSeq(items, HasMatchId)
    IN  [i \in 1..Len(with) |-> with[i].match_id.v]

\* crawl_match_ids has run on an answer of /api/teams/{id}/matches that is
\* a list of records
MatchListAnswered ==
    /\ pc \in {"returned", "raised"}
    /\ response.kind = "json"
    /\ response.body.t = "list"
    /\ \A i \in 1..Len(response.body.items) : response.body.items[i].kind = "obj"

\* C7: for every list of match records crawl_match_ids yields exactly the
\* match_id values of the records that have the field, in the order
\* returned, and omits the others without reporting an error.
C7_MatchIdsInOrder ==
    MatchListAnswered =>
        /\ pc = "returned"
        /\ match_ids = MatchIdsOf(response.body.items)
        /\ response.body.items # << >> => output = << >>
        /\ response.body.items = << >> => output = <<"match_no_data">>

C7_Witness ==
    /\ MatchListAnswered
    /\ Len(response.body.items) = 3
    /\ response.body.items[1].match_id = IntVal(200)
    /\ response.body.items[2].match_id.t = "missing"
    /\ response.body.items[3].match_id = IntVal(100)
    /\ match_ids = <<200, 100>>

\* C8: a second export_to_csv call with the same team name and the same
\* non-empty list leaves the file as the first call left it, whatever it
\* held beforehand (both writes succeeding).
C8_ExportIdempotent ==
    \A k \in 2..Len(exports) :
        (exports[k - 1].outcome = "ok" /\ exports[k].outcome = "ok")
        => /\ exports[k].after = exports[k - 1].after
           /\ exports[k].after = [exists |-> TRUE, rows |-> ToCsv(match_ids)]

C8_Witness ==
    /\ pc = "call"
    /\ Len(exports) = 2
    /\ exports[1].outcome = "ok"
    /\ exports[2].outcome = "ok"
    /\ team_name = <<"A">>
    /\ match_ids = <<200, 100>>
    /\ fs[FileName(team_name)] = <<<<"match_id">>, <<"2", "0", "0">>, <<"1", "0", "0">>>>

\* C9: whenever get_team_id returns a team identifier, 0 included, main goes
\* on to ListMatches; the run halts at ResolveTeam only when the resolver
\* returned None.
C9_HaltsOnlyOnNotFound ==
    (pc = "done" /\ Len(stages) = 2) => team_id = None

\* index of the first occurrence of a line in the output, 0 if absent
Pos(line) ==
    IF Printed(line)
    THEN CHOOSE i \in 1..Len(output) :
             output[i] = line /\ \A j \in 1..(i - 1) : output[j] # line
    ELSE 0

\* some line of the set is printed after the given position
PrintedAfter(p, lines) == \E i \in (p + 1)..Len(output) : output[i] \in lines

\* C10: in every run each stage entered prints a progress line before its
\* work and a result line after it, before the next stage starts or the run
\* ends.
C10_ProgressThenResult ==
    RunEnded =>
        /\ Len(stages) >= 2 =>
             /\ Printed("resolve_progress")
             /\ PrintedAfter(Pos("resolve_progress"), {"resolve_ok", "resolve_failed"})
        /\ Len(stages) >= 3 =>
             /\ Printed("list_progress")
             /\ PrintedAfter(Pos("list_progress"), {"list_ok", "list_empty"})
        /\ Len(stages) >= 4 =>
             /\ Printed("export_progress")
             /\ PrintedAfter(Pos("export_progress"), {"export_ok", "export_error"})

====
